---- MODULE Spec2Model ----
(***************************************************************************)
(* A model of ctapipe's angular coordinate frames (coordinates/            *)
(* angular_frames.py), of the Tool life cycle (core/tool.py) and of the    *)
(* pipeline drawer's message handler (pipeline/zmqpipe/drawer/             *)
(* pipelinedrawer.py).                                                     *)
(*                                                                         *)
(* Numbers.  The trigonometry is carried out in exact arithmetic on the    *)
(* numbers r * sqrt(m), r rational and m a squarefree positive integer:    *)
(* a record [n, d, m] stands for (n/d) * sqrt(m).  Every intermediate      *)
(* value of the two kernels is such a number when the reference direction  *)
(* has rational sine and cosine and the offsets are rational.  "Equal      *)
(* within tolerance" is equality of these exact values; what floating      *)
(* point adds is carried by the rnd flag of an angle (see Angles).         *)
(***************************************************************************)
EXTENDS Integers, Sequences, FiniteSets, TLC

Abs(i) == IF i < 0 THEN -i ELSE i

Sgn(i) == IF i < 0 THEN -1 ELSE IF i = 0 THEN 0 ELSE 1

RECURSIVE GCD(_, _)
GCD(a, b) == IF b = 0 THEN a ELSE GCD(b, a % b)

\* A number whose square is at least n, for 0 < n < 2^31.
RootBound(n) ==
    IF n < 16 THEN 4
    ELSE IF n < 100 THEN 10
    ELSE IF n < 1000 THEN 32
    ELSE IF n < 10000 THEN 100
    ELSE IF n < 100000 THEN 317
    ELSE IF n < 1000000 THEN 1000
    ELSE IF n < 10000000 THEN 3163
    ELSE 46340

\* n = a * a * m with m squarefree, for n > 0: the pair <<a, m>>, a the
\* largest number whose square divides n.
Largest(S) == CHOOSE k \in S : \A j \in S : j <= k

SquarePart(n, a) == <<a, n \div (a * a)>>

Sqf(n) == SquarePart(n, Largest({k \in 1..RootBound(n) : k * k <= n /\ n % (k * k) = 0}))

\* (n/d) * sqrt(m) in canonical form.  d = 0 is a non-finite value: n > 0
\* is +inf, n < 0 is -inf and n = 0 is nan.
Reduced(n, d, m, g) == [n |-> Sgn(d) * (n \div g), d |-> Abs(d) \div g, m |-> m]

Mk(n, d, m) ==
    IF d = 0 THEN [n |-> Sgn(n), d |-> 0, m |-> 1]
    ELSE IF n = 0 THEN [n |-> 0, d |-> 1, m |-> 1]
    ELSE Reduced(n, d, m, GCD(Abs(n), Abs(d)))

Frac(n, d) == Mk(n, d, 1)

Zero == Frac(0, 1)

One == Frac(1, 1)

NaN == [n |-> 0, d |-> 0, m |-> 1]

\* A value outside r * sqrt(m): the sum of two incommensurable numbers.
Unrep == [n |-> 0, d |-> 0, m |-> 0]

\* The literal 1e-14 of offset_to_altaz.  m = 0 marks it: it is positive and
\* below the resolution of every other value, so that in double precision
\* sin(arctan(1e-14)) / 1e-14 and cos(arctan(1e-14)) are both exactly 1.0.
Tiny == [n |-> 1, d |-> 1, m |-> 0]

IsFinite(x) == x.d # 0 /\ x.m # 0

IsZero(x) == x.d # 0 /\ x.n = 0

SNeg(x) == [x EXCEPT !.n = -x.n]

\* The product of xn/xd and yn/yd, g1 = gcd(xn, yd) and g2 = gcd(yn, xd), and
\* of sqrt(xm) and sqrt(ym) = g * sqrt((xm/g) * (ym/g)), g = gcd(xm, ym);
\* g3 and g4 are what g and the two denominators have in common.
Cancelled(x, y, g, g1, g2, g3, g4) ==
    Mk((x.n \div g1) * (y.n \div g2) * ((g \div g3) \div g4),
       ((x.d \div g2) \div g3) * ((y.d \div g1) \div g4),
       (x.m \div g) * (y.m \div g))

Cancel4(x, y, g, g1, g2, g3) ==
    Cancelled(x, y, g, g1, g2, g3, GCD(g \div g3, y.d \div g1))

Cancel3(x, y, g, g1, g2) == Cancel4(x, y, g, g1, g2, GCD(g, x.d \div g2))

SMul(x, y) ==
    IF ~IsFinite(x) \/ ~IsFinite(y) THEN NaN
    ELSE Cancel3(x, y, GCD(x.m, y.m), GCD(Abs(x.n), y.d), GCD(Abs(y.n), x.d))

\* x / y as numpy divides: a finite x over zero is +-inf, 0/0 is nan.
SDiv(x, y) ==
    IF x = Tiny /\ y = Tiny THEN One
    ELSE IF ~IsFinite(x) \/ ~IsFinite(y) THEN NaN
    ELSE IF IsZero(y) THEN Mk(x.n, 0, 1)
    ELSE SMul(x, Mk(y.d * Sgn(y.n), Abs(y.n) * y.m, y.m))

OverCommon(x, y, g) ==
    Mk(x.n * (y.d \div g) + y.n * (x.d \div g), x.d * (y.d \div g), x.m)

SAdd(x, y) ==
    IF ~IsFinite(x) \/ ~IsFinite(y) THEN NaN
    ELSE IF IsZero(x) THEN y
    ELSE IF IsZero(y) THEN x
    ELSE IF x.m # y.m THEN Unrep
    ELSE OverCommon(x, y, GCD(x.d, y.d))

SSub(x, y) == SAdd(x, SNeg(y))

\* sqrt(a1 * a1 * a2 / (b1 * b1 * b2)) = (a1 / (b1 * b2)) * sqrt(a2 * b2).
RootOf(a, b) == Mk(a[1], b[1] * b[2], a[2] * b[2])

\* The square root of a rational x >= 0; nan below zero, as numpy's sqrt.
SSqrt(x) ==
    IF ~IsFinite(x) THEN NaN
    ELSE IF x.m # 1 THEN Unrep
    ELSE IF x.n < 0 THEN NaN
    ELSE IF x.n = 0 THEN Zero
    ELSE RootOf(Sqf(x.n), Sqf(x.d))

SPos(x) == IsFinite(x) /\ x.n > 0

SNegative(x) == IsFinite(x) /\ x.n < 0

SLess(x, y) == SNegative(SSub(x, y))

(***************************************************************************)
(* Angles.  An angle is the point (c, s) = (cos, sin) of the unit circle   *)
(* together with k, the number of full turns by which its value lies       *)
(* outside [0, 2 pi): value = principal + 2 pi k.  unit is the unit of the *)
(* quantity that carries it ("rad" for a bare float of radians).  rnd      *)
(* says that the value is the result of floating point operations, and so  *)
(* may differ from the exact value in the last bits; an angle with         *)
(* rnd = FALSE is bit for bit the value the caller supplied.               *)
(***************************************************************************)
Angle(c, s, k, unit, rnd) == [c |-> c, s |-> s, k |-> k, unit |-> unit, rnd |-> rnd]

\* The caller's angle with cosine cn/d and sine sn/d, in [0, 2 pi).
Given(cn, sn, d, unit) == Angle(Frac(cn, d), Frac(sn, d), 0, unit, FALSE)

cos(a) == a.c

sin(a) == a.s

tan(a) == SDiv(a.s, a.c)

\* numpy.arcsin: the angle of [-pi/2, pi/2] with sine z, nan outside [-1, 1].
arcsin(z) ==
    Angle(SSqrt(SSub(One, SMul(z, z))), z, IF SNegative(z) THEN -1 ELSE 0, "rad", TRUE)

\* numpy.arccos: the angle of [0, pi] with cosine z.
arccos(z) == Angle(z, SSqrt(SSub(One, SMul(z, z))), 0, "rad", TRUE)

\* The angle of (-pi, pi] of the point (x, y), at the distance h from the
\* origin; 0 at the origin.
AngleOf(x, y, h) ==
    IF IsZero(h) THEN Angle(One, Zero, 0, "rad", TRUE)
    ELSE Angle(SDiv(x, h), SDiv(y, h), IF SNegative(y) THEN -1 ELSE 0, "rad", TRUE)

\* numpy.arctan of t >= 0: the angle of [0, pi/2) with tangent t.
arctan(t) ==
    IF t = Tiny THEN Angle(One, Tiny, 0, "rad", TRUE)
    ELSE AngleOf(One, t, SSqrt(SAdd(One, SMul(t, t))))

\* numpy.arctan2: the angle of (-pi, pi] of the point (x, y); 0 at the origin.
arctan2(y, x) == AngleOf(x, y, SSqrt(SAdd(SMul(x, x), SMul(y, y))))

\* The order of the principal values of two angles, both in [0, 2 pi).
LowerHalf(a) == SNegative(a.s) \/ (IsZero(a.s) /\ SNegative(a.c))

PLess(a, b) ==
    IF LowerHalf(a) # LowerHalf(b) THEN LowerHalf(b)
    ELSE SPos(SSub(SMul(a.c, b.s), SMul(a.s, b.c)))

\* a + b of two quantities (or floats): the turns add, with a carry when the
\* principal values sum to a full turn or more.
Carried(r, a, b) == [r EXCEPT !.k = a.k + b.k + IF PLess(r, a) THEN 1 ELSE 0]

AngAdd(a, b) ==
    Carried(Angle(SSub(SMul(a.c, b.c), SMul(a.s, b.s)),
                  SAdd(SMul(a.s, b.c), SMul(a.c, b.s)), 0, a.unit, TRUE), a, b)

AngNeg(a) ==
    IF IsZero(a.s) /\ SPos(a.c) THEN [a EXCEPT !.k = -a.k]
    ELSE Angle(a.c, SNeg(a.s), -a.k - 1, a.unit, a.rnd)

AngSub(a, b) == AngAdd(a, AngNeg(b))

\* Quantity.to(unit): the same angle in another unit.  Between different
\* units the value is multiplied by a conversion factor, a floating point
\* operation; to the unit it already has, the factor is 1.0.
ToUnit(a, unit) == IF a.unit = unit THEN a ELSE [a EXCEPT !.unit = unit, !.rnd = TRUE]

\* Longitude(angle): wrapped into [0, 2 pi), as UnitSphericalRepresentation
\* stores its lon.
Longitude(a) == [a EXCEPT !.k = 0]

\* Two angles name the same value (within tolerance), whatever the unit.
SameAngle(a, b) == a.c = b.c /\ a.s = b.s /\ a.k = b.k

(***************************************************************************)
(* Arrays.  A numpy value is a buffer [shape, v]: v holds the elements, one *)
(* for a scalar.  mem is the sequence of the buffers that exist; a buffer   *)
(* is known by its index in mem, and an operation that returns a new array  *)
(* appends one.                                                             *)
(***************************************************************************)
Buffer(shape, v) == [shape |-> shape, v |-> v]

Scalar(x) == Buffer("scalar", <<x>>)

isscalar(b) == b.shape = "scalar"

\* a[pos] = val: the elements at pos of the buffer itself are overwritten.
SetItem(mem, id, pos, val) ==
    [mem EXCEPT ![id].v = [i \in 1..Len(@) |-> IF i \in pos THEN val ELSE @[i]]]

(***************************************************************************)
(* The trigonometric kernels.  A local name of the code that later         *)
(* statements read is a parameter of the operator that models those        *)
(* statements.                                                             *)
(***************************************************************************)
\* x_off = disp * cos(alpha) and y_off = disp * sin(alpha)
planar_offsets(disp, alpha) ==
    [x_off |-> SMul(disp, cos(alpha)), y_off |-> SMul(disp, sin(alpha))]

\* disp = tan(arccos(zp1)) and alpha = arctan2(yp1, xp1)
project_on_plane(xp1, yp1, zp1) == planar_offsets(tan(arccos(zp1)), arctan2(yp1, xp1))

\* xp1, yp1, zp1: the vector turned by the altitude of the reference.
rotate_to_reference(xp0, yp0, zp0, sin_sys_alt, cos_sys_alt) ==
    project_on_plane(SAdd(SMul(sin_sys_alt, xp0), SMul(cos_sys_alt, zp0)),
                     yp0,
                     SAdd(SMul(SNeg(cos_sys_alt), xp0), SMul(sin_sys_alt, zp0)))

\* xp0 = cos(diff_az) * cosine_obj_alt: the sign of the first component
\* lost.
horizon_vector_unsigned(diff_az, cosine_obj_alt, obj_altitude, altitude) ==
    rotate_to_reference(SMul(cos(diff_az), cosine_obj_alt),
                        SMul(sin(diff_az), cosine_obj_alt),
                        sin(obj_altitude), sin(altitude), cos(altitude))

\* xp0, yp0, zp0, sin_sys_alt and cos_sys_alt
horizon_vector(diff_az, cosine_obj_alt, obj_altitude, altitude) ==
    rotate_to_reference(SMul(SNeg(cos(diff_az)), cosine_obj_alt),
                        SMul(sin(diff_az), cosine_obj_alt),
                        sin(obj_altitude), sin(altitude), cos(altitude))

\* altaz_to_offset on one element: every operation of the function is a
\* numpy ufunc, applied element by element.
offset_of(obj_azimuth, obj_altitude, azimuth, altitude) ==
    horizon_vector(AngSub(obj_azimuth, azimuth), cos(obj_altitude), obj_altitude, altitude)

\* The two arrays returned, of the shape of the arguments.
offset_buffers(shape, r) ==
    [x_off |-> Buffer(shape, [i \in 1..Len(r) |-> r[i].x_off]),
     y_off |-> Buffer(shape, [i \in 1..Len(r) |-> r[i].y_off])]

\* altaz_to_offset(obj_azimuth, obj_altitude, azimuth, altitude): the event
\* direction is a pair of buffers, the reference a pair of scalars.
altaz_to_offset(obj_azimuth, obj_altitude, azimuth, altitude) ==
    offset_buffers(obj_azimuth.shape,
                   [i \in 1..Len(obj_azimuth.v) |->
                       offset_of(obj_azimuth.v[i], obj_altitude.v[i], azimuth, altitude)])

\* The local names of a call of offset_to_altaz(x_off, y_off, altitude,
\* azimuth), bound to the caller's arguments: four buffers of mem, the last
\* two scalars.  0 is a name not yet bound.
Enter(mem, x_off, y_off, altitude, azimuth) ==
    [mem |-> mem, x_off |-> x_off, y_off |-> y_off,
     altitude |-> altitude, azimuth |-> azimuth, unit |-> "rad",
     offset |-> 0, pos |-> {}, obj_altitude |-> 0, obj_azimuth |-> 0]

\* q.to(u.rad).value: Quantity.to returns a converted copy, and value is the
\* array of that copy.
to_rad_value(q) ==
    Buffer(q.shape, [i \in 1..Len(q.v) |->
                        IF "unit" \in DOMAIN q.v[i] THEN ToUnit(q.v[i], "rad") ELSE q.v[i]])

\* unit = azimuth.unit, and the four names rebound to bare arrays of radians.
convert_units(f) ==
    [f EXCEPT !.unit = f.mem[f.azimuth].v[1].unit,
              !.mem = f.mem \o << to_rad_value(f.mem[f.x_off]), to_rad_value(f.mem[f.y_off]),
                                  to_rad_value(f.mem[f.azimuth]),
                                  to_rad_value(f.mem[f.altitude]) >>,
              !.x_off = Len(f.mem) + 1, !.y_off = Len(f.mem) + 2,
              !.azimuth = Len(f.mem) + 3, !.altitude = Len(f.mem) + 4]

\* The name offset bound to a new array, and pos = np.where(offset == 0).
with_offset(f, offset) ==
    [f EXCEPT !.mem = Append(f.mem, offset), !.offset = Len(f.mem) + 1,
              !.pos = {i \in 1..Len(offset.v) : IsZero(offset.v[i])}]

\* offset = sqrt(x_off * x_off + y_off * y_off) and pos.
radial_offset(f) ==
    with_offset(f, Buffer(f.mem[f.x_off].shape,
                          [i \in 1..Len(f.mem[f.x_off].v) |->
                              SSqrt(SAdd(SMul(f.mem[f.x_off].v[i], f.mem[f.x_off].v[i]),
                                         SMul(f.mem[f.y_off].v[i], f.mem[f.y_off].v[i])))]))

\* guard_zero with offset[:] = 1e-14 for an array: every element replaced,
\* not the ones at pos.
guard_zero_all(f) ==
    IF f.pos = {} THEN f
    ELSE IF isscalar(f.mem[f.offset])
         THEN [f EXCEPT !.mem = Append(f.mem, Scalar(Tiny)), !.offset = Len(f.mem) + 1]
         ELSE [f EXCEPT !.mem = SetItem(f.mem, f.offset,
                                        1..Len(f.mem[f.offset].v), Tiny)]

\* if len(pos[0]) > 0: a scalar offset is rebound to 1e-14, an array has
\* 1e-14 written at pos.
guard_zero(f) ==
    IF f.pos = {} THEN f
    ELSE IF isscalar(f.mem[f.offset])
         THEN [f EXCEPT !.mem = Append(f.mem, Scalar(Tiny)), !.offset = Len(f.mem) + 1]
         ELSE [f EXCEPT !.mem = SetItem(f.mem, f.offset, f.pos, Tiny)]

\* x_off[pos] = 1e-14, written into the array x_off itself.
perturb_x_off(f) ==
    IF f.pos = {} \/ isscalar(f.mem[f.x_off]) THEN f
    ELSE [f EXCEPT !.mem = SetItem(f.mem, f.x_off, f.pos, Tiny)]

\* The statements before the general formula with x_off and y_off left
\* bound to the caller's arrays, and 1e-14 written into x_off at pos as well.
prepare_in_place(f) ==
    perturb_x_off(guard_zero(radial_offset([convert_units(f) EXCEPT !.x_off = f.x_off,
                                                                    !.y_off = f.y_off])))

\* The statements of offset_to_altaz before the general formula.
prepare(f) == guard_zero(radial_offset(convert_units(f)))

\* obj_altitude = arcsin(zp0) and obj_azimuth = arctan2(yp0, -xp0) + azimuth
to_altitude_azimuth(xp0, yp0, zp0, azimuth) ==
    [obj_altitude |-> arcsin(zp0),
     obj_azimuth  |-> AngAdd(arctan2(yp0, SNeg(xp0)), azimuth)]

\* xp0, yp0, zp0: the vector turned back by the altitude of the reference.
rotate_to_horizon(xp1, yp1, zp1, sin_obj_alt, cos_obj_alt, azimuth) ==
    to_altitude_azimuth(SSub(SMul(sin_obj_alt, xp1), SMul(cos_obj_alt, zp1)),
                        yp1,
                        SAdd(SMul(cos_obj_alt, xp1), SMul(sin_obj_alt, zp1)),
                        azimuth)

\* sin_atan_off, xp1, yp1, zp1, sin_obj_alt and cos_obj_alt
unit_vector(x_off, y_off, offset, atan_off, altitude, azimuth) ==
    rotate_to_horizon(SMul(x_off, SDiv(sin(atan_off), offset)),
                      SMul(y_off, SDiv(sin(atan_off), offset)),
                      cos(atan_off), sin(altitude), cos(altitude), azimuth)

\* The general formula on one element, from atan_off to obj_azimuth.
direction_of(x_off, y_off, offset, altitude, azimuth) ==
    unit_vector(x_off, y_off, offset, arctan(offset), altitude, azimuth)

\* The names obj_altitude and obj_azimuth bound to two new arrays.
with_direction(f, shape, r) ==
    [f EXCEPT !.mem = f.mem \o << Buffer(shape, [i \in 1..Len(r) |-> r[i].obj_altitude]),
                                  Buffer(shape, [i \in 1..Len(r) |-> r[i].obj_azimuth]) >>,
              !.obj_altitude = Len(f.mem) + 1, !.obj_azimuth = Len(f.mem) + 2]

\* atan_off = arctan(offset) ... obj_azimuth = arctan2(yp0, -xp0) + azimuth:
\* ufuncs, element by element, into new arrays.
general_formula(f) ==
    with_direction(f, f.mem[f.x_off].shape,
                   [i \in 1..Len(f.mem[f.x_off].v) |->
                       direction_of(f.mem[f.x_off].v[i], f.mem[f.y_off].v[i],
                                    f.mem[f.offset].v[i],
                                    f.mem[f.altitude].v[1], f.mem[f.azimuth].v[1])])

\* restore_reference with the results of the general formula left as they
\* are.
restore_reference_skipped(f) == f

\* restore_reference with obj_altitude[:] = altitude and obj_azimuth[:] =
\* azimuth for an array: every element overwritten, not the ones at pos.
restore_reference_all(f) ==
    IF f.pos = {} THEN f
    ELSE IF isscalar(f.mem[f.obj_altitude])
         THEN [f EXCEPT !.obj_altitude = f.altitude, !.obj_azimuth = f.azimuth]
         ELSE [f EXCEPT !.mem = SetItem(SetItem(f.mem, f.obj_altitude,
                                                1..Len(f.mem[f.obj_altitude].v),
                                                f.mem[f.altitude].v[1]),
                                        f.obj_azimuth, 1..Len(f.mem[f.obj_azimuth].v),
                                        f.mem[f.azimuth].v[1])]

\* if len(pos[0]) > 0: a scalar result is rebound to the reference, an
\* array has the reference written at pos.
restore_reference(f) ==
    IF f.pos = {} THEN f
    ELSE IF isscalar(f.mem[f.obj_altitude])
         THEN [f EXCEPT !.obj_altitude = f.altitude, !.obj_azimuth = f.azimuth]
         ELSE [f EXCEPT !.mem = SetItem(SetItem(f.mem, f.obj_altitude, f.pos,
                                                f.mem[f.altitude].v[1]),
                                        f.obj_azimuth, f.pos, f.mem[f.azimuth].v[1])]

\* q * u.rad and .to(unit): a new quantity in the unit of the caller.
in_unit(q, unit) == Buffer(q.shape, [i \in 1..Len(q.v) |-> ToUnit(q.v[i], unit)])

\* obj_altitude * u.rad, obj_azimuth * u.rad and the two .to(unit) of the
\* return: new quantities, in the unit the reference azimuth came in.
to_caller_unit(f) ==
    [mem |-> f.mem \o << in_unit(f.mem[f.obj_altitude], f.unit),
                         in_unit(f.mem[f.obj_azimuth], f.unit) >>,
     altitude |-> Len(f.mem) + 1, azimuth |-> Len(f.mem) + 2]

\* offset_to_altaz(x_off, y_off, altitude, azimuth): the memory after the
\* call and the two buffers returned, (altitude, azimuth).
offset_to_altaz(mem, x_off, y_off, altitude, azimuth) ==
    to_caller_unit(restore_reference(general_formula(prepare(
        Enter(mem, x_off, y_off, altitude, azimuth)))))

(***************************************************************************)
(* Frames and coordinates.  A frame is a record of its kind and its frame  *)
(* attributes (obstime and location take no part in any transform and are  *)
(* left out); a coordinate is a frame with data.  A length is a value with *)
(* its unit, "m" or "cm".                                                  *)
(***************************************************************************)
None == [tag |-> "None"]

\* A HorizonFrame coordinate given as a frame attribute.
Pointing(alt, az) == [tag |-> "Horizon", alt |-> alt, az |-> az]

HorizonFrame == [kind |-> "Horizon"]

TelescopeFrame(telescope_pointing) ==
    [kind |-> "Telescope", telescope_pointing |-> telescope_pointing]

NominalFrame(reference_point) ==
    [kind |-> "Nominal", reference_point |-> reference_point]

CameraFrame(focal_length, rotation, telescope_pointing) ==
    [kind |-> "Camera", focal_length |-> focal_length, rotation |-> rotation,
     telescope_pointing |-> telescope_pointing]

Length(v, unit) == [v |-> v, unit |-> unit]

\* The value of a length in metres.
Metres(l) == IF l.unit = "cm" THEN SMul(l.v, Frac(1, 100)) ELSE l.v

PlanarRepresentation(x, y) == [x |-> x, y |-> y]

\* UnitSphericalRepresentation(lon, lat): lon is stored as a Longitude.
UnitSphericalRepresentation(lon, lat) ==
    [az  |-> Buffer(lon.shape, [i \in 1..Len(lon.v) |-> Longitude(lon.v[i])]),
     alt |-> lat]

CartesianRepresentation(x, y, z) == [x |-> x, y |-> y, z |-> z]

realize_frame(frame, representation) == [frame |-> frame, data |-> representation]

\* What a transform function does: it returns a coordinate or raises.
Return(coord) == [raised |-> "", coord |-> coord]

Raise(err) == [raised |-> err]

\* offset_to_altaz called on the x and y of a coordinate.
Returned(r) == [altitude |-> r.mem[r.altitude], azimuth |-> r.mem[r.azimuth]]

CallOffsetToAltaz(x, y, altitude, azimuth) ==
    Returned(offset_to_altaz(<<x, y, Scalar(altitude), Scalar(azimuth)>>, 1, 2, 3, 4))

\* x_off * u.rad, y_off * u.rad and PlanarRepresentation(x_off, y_off)
PlanarOf(off) == PlanarRepresentation(off.x_off, off.y_off)

\* UnitSphericalRepresentation(lon=azimuth, lat=altitude)
SphericalOf(r) == UnitSphericalRepresentation(r.azimuth, r.altitude)

\* altaz_to_offset(az_trans, alt_trans, azimuth, altitude)
OffsetOf(trans, azimuth, altitude) ==
    altaz_to_offset(trans.azimuth, trans.altitude, azimuth, altitude)

\* horizon_to_telescope with a frame without pointing read as one pointed
\* at the zenith.
horizon_to_telescope_zenith(horizon_coord, telescope_frame) ==
    LET pointing == IF telescope_frame.telescope_pointing = None
                    THEN Pointing(Given(0, 1, 1, "rad"), Given(1, 0, 1, "rad"))
                    ELSE telescope_frame.telescope_pointing
        representation == PlanarOf(altaz_to_offset(horizon_coord.data.az, horizon_coord.data.alt, pointing.az, pointing.alt))
    IN  Return(realize_frame(telescope_frame, representation))

horizon_to_telescope(horizon_coord, telescope_frame) ==
    IF telescope_frame.telescope_pointing = None THEN Raise("AttributeError")
    ELSE LET alt_pointing == telescope_frame.telescope_pointing.alt
             az_pointing  == telescope_frame.telescope_pointing.az
             representation == PlanarOf(altaz_to_offset(horizon_coord.data.az, horizon_coord.data.alt, az_pointing, alt_pointing))
         IN  Return(realize_frame(telescope_frame, representation))

telescope_to_horizon(telescope_coord, horizon_frame) ==
    LET pointing == telescope_coord.frame.telescope_pointing
    IN  IF pointing = None THEN Raise("AttributeError")
        ELSE LET representation ==
                     SphericalOf(CallOffsetToAltaz(telescope_coord.data.x,
                                                   telescope_coord.data.y,
                                                   pointing.alt, pointing.az))
             IN  Return(realize_frame(horizon_frame, representation))

nominal_to_altaz(norm_coord, altaz_coord) ==
    IF norm_coord.frame.reference_point = None THEN Raise("AttributeError")
    ELSE LET alt_nom == norm_coord.frame.reference_point.alt
             az_nom  == norm_coord.frame.reference_point.az
             representation ==
                 SphericalOf(CallOffsetToAltaz(norm_coord.data.x, norm_coord.data.y,
                                               alt_nom, az_nom))
         IN  Return(realize_frame(altaz_coord, representation))

\* altaz_to_nominal with the two offsets exchanged in the representation,
\* PlanarRepresentation(y_off, x_off).
altaz_to_nominal_exchanged(altaz_coord, norm_coord) ==
    IF norm_coord.reference_point = None THEN Raise("AttributeError")
    ELSE LET alt_nom == norm_coord.reference_point.alt
             az_nom  == norm_coord.reference_point.az
             off == altaz_to_offset(altaz_coord.data.az, altaz_coord.data.alt,
                                    az_nom, alt_nom)
             representation == PlanarRepresentation(off.y_off, off.x_off)
         IN  Return(realize_frame(norm_coord, representation))

altaz_to_nominal(altaz_coord, norm_coord) ==
    IF norm_coord.reference_point = None THEN Raise("AttributeError")
    ELSE LET alt_nom == norm_coord.reference_point.alt
             az_nom  == norm_coord.reference_point.az
             representation == PlanarOf(altaz_to_offset(altaz_coord.data.az, altaz_coord.data.alt, az_nom, alt_nom))
         IN  Return(realize_frame(norm_coord, representation))

\* telescope_to_nominal with the offsets read against the Nominal reference
\* in the call of offset_to_altaz, the telescope pointing unused.
telescope_to_nominal_unpointed(tel_coord, nominal_frame) ==
    IF tel_coord.frame.telescope_pointing = None THEN Raise("AttributeError")
    ELSE IF nominal_frame.reference_point = None THEN Raise("AttributeError")
    ELSE LET alt_nom == nominal_frame.reference_point.alt
             az_nom  == nominal_frame.reference_point.az
             trans == CallOffsetToAltaz(tel_coord.data.x, tel_coord.data.y, alt_nom, az_nom)
             representation == PlanarOf(OffsetOf(trans, az_nom, alt_nom))
         IN  Return(realize_frame(nominal_frame, representation))

telescope_to_nominal(tel_coord, nominal_frame) ==
    IF tel_coord.frame.telescope_pointing = None THEN Raise("AttributeError")
    ELSE IF nominal_frame.reference_point = None THEN Raise("AttributeError")
    ELSE LET alt_tel == tel_coord.frame.telescope_pointing.alt
             az_tel  == tel_coord.frame.telescope_pointing.az
             alt_nom == nominal_frame.reference_point.alt
             az_nom  == nominal_frame.reference_point.az
             trans == CallOffsetToAltaz(tel_coord.data.x, tel_coord.data.y, alt_tel, az_tel)
             representation == PlanarOf(OffsetOf(trans, az_nom, alt_nom))
         IN  Return(realize_frame(nominal_frame, representation))

nominal_to_telescope(norm_coord, tel_frame) ==
    IF tel_frame.telescope_pointing = None THEN Raise("AttributeError")
    ELSE IF norm_coord.frame.reference_point = None THEN Raise("AttributeError")
    ELSE LET alt_tel == tel_frame.telescope_pointing.alt
             az_tel  == tel_frame.telescope_pointing.az
             alt_nom == norm_coord.frame.reference_point.alt
             az_nom  == norm_coord.frame.reference_point.az
             trans == CallOffsetToAltaz(norm_coord.data.x, norm_coord.data.y,
                                        alt_nom, az_nom)
             representation == PlanarOf(OffsetOf(trans, az_tel, alt_tel))
         IN  Return(realize_frame(tel_frame, representation))

\* rot == 0 and rot.value == 0.0: the angle is zero.
IsZeroAngle(a) == IsZero(a.s) /\ SPos(a.c) /\ a.k = 0

\* x_pos * cos(rot) - y_pos * sin(rot) and x_pos * sin(rot) + y_pos * cos(rot).
Rotated(x, y, rot) ==
    [x |-> SSub(SMul(x, cos(rot)), SMul(y, sin(rot))),
     y |-> SAdd(SMul(x, sin(rot)), SMul(y, cos(rot)))]

camera_to_telescope(camera_coord, telescope_frame) ==
    LET x_pos == camera_coord.data.x
        y_pos == camera_coord.data.y
        rot   == camera_coord.frame.rotation
        r     == IF IsZeroAngle(rot) THEN [x |-> x_pos.v, y |-> y_pos.v]
                 ELSE Rotated(x_pos.v, y_pos.v, rot)
        focal_length == camera_coord.frame.focal_length
        \* (x_rotated / focal_length).to_value(): the number in front of the
        \* unit of the quotient (m / m or cm / m), whatever that unit is
        x_rotated == SDiv(r.x, focal_length.v)
        y_rotated == SDiv(r.y, focal_length.v)
        representation == PlanarRepresentation(Scalar(x_rotated), Scalar(y_rotated))
    IN  Return(realize_frame(telescope_frame, representation))

telescope_to_camera(telescope_coord, camera_frame) ==
    LET x_pos == telescope_coord.data.x.v[1]
        y_pos == telescope_coord.data.y.v[1]
        rot   == AngNeg(camera_frame.rotation)
        r     == IF IsZeroAngle(rot) THEN [x |-> x_pos, y |-> y_pos]
                 ELSE Rotated(x_pos, y_pos, rot)
        focal_length == camera_frame.focal_length
        x_rotated == Length(SMul(r.x, focal_length.v), focal_length.unit)
        y_rotated == Length(SMul(r.y, focal_length.v), focal_length.unit)
        representation == CartesianRepresentation(x_rotated, y_rotated, Length(Zero, "m"))
    IN  Return(realize_frame(camera_frame, representation))

(***************************************************************************)
(* The transform graph.  Importing the module runs the eight               *)
(* @frame_transform_graph.transform decorators in the order of the file;   *)
(* each adds one edge, from a frame kind to a frame kind, with its         *)
(* function.                                                               *)
(***************************************************************************)
Edge(fromsys, tosys, func) == [fromsys |-> fromsys, tosys |-> tosys, func |-> func]

\* The registrations with the last decorator naming NominalFrame where the
\* file names TelescopeFrame.
Registrations_misnamed ==
    << Edge("Horizon", "Telescope", "horizon_to_telescope"),
       Edge("Telescope", "Horizon", "telescope_to_horizon"),
       Edge("Nominal", "Horizon", "nominal_to_altaz"),
       Edge("Horizon", "Nominal", "altaz_to_nominal"),
       Edge("Telescope", "Nominal", "telescope_to_nominal"),
       Edge("Nominal", "Telescope", "nominal_to_telescope"),
       Edge("Camera", "Telescope", "camera_to_telescope"),
       Edge("Nominal", "Camera", "telescope_to_camera") >>

Registrations ==
    << Edge("Horizon", "Telescope", "horizon_to_telescope"),
       Edge("Telescope", "Horizon", "telescope_to_horizon"),
       Edge("Nominal", "Horizon", "nominal_to_altaz"),
       Edge("Horizon", "Nominal", "altaz_to_nominal"),
       Edge("Telescope", "Nominal", "telescope_to_nominal"),
       Edge("Nominal", "Telescope", "nominal_to_telescope"),
       Edge("Camera", "Telescope", "camera_to_telescope"),
       Edge("Telescope", "Camera", "telescope_to_camera") >>

\* The registered function called on a coordinate and a destination frame.
Call(func, coord, frame) ==
    CASE func = "horizon_to_telescope" -> horizon_to_telescope(coord, frame)
      [] func = "telescope_to_horizon" -> telescope_to_horizon(coord, frame)
      [] func = "nominal_to_altaz"     -> nominal_to_altaz(coord, frame)
      [] func = "altaz_to_nominal"     -> altaz_to_nominal(coord, frame)
      [] func = "telescope_to_nominal" -> telescope_to_nominal(coord, frame)
      [] func = "nominal_to_telescope" -> nominal_to_telescope(coord, frame)
      [] func = "camera_to_telescope"  -> camera_to_telescope(coord, frame)
      [] func = "telescope_to_camera"  -> telescope_to_camera(coord, frame)

(***************************************************************************)
(* The values the callers of this model use.                               *)
(***************************************************************************)
\* The longest chain of transforms applied to one coordinate.
MaxHops == 2

Units == {"rad", "deg"}

Deg0(unit) == Given(1, 0, 1, unit)

Deg37(unit) == Given(4, 3, 5, unit)

Deg53(unit) == Given(3, 4, 5, unit)

Deg90(unit) == Given(0, 1, 1, unit)

Deg180(unit) == Given(-1, 0, 1, unit)

Deg270(unit) == Given(0, -1, 1, unit)

Pointings ==
    { Pointing(Deg53("rad"), Deg0("rad")),
      Pointing(Deg37("deg"), Deg37("deg")),
      Pointing(Deg53("rad"), Deg270("rad")) }

Directions ==
    { UnitSphericalRepresentation(Scalar(az), Scalar(alt)) :
        az \in {Deg0("deg"), Deg37("deg"), Deg180("deg")},
        alt \in {Deg37("deg"), Deg53("deg")} }

OffsetPairs ==
    { <<Zero, Zero>>, <<Frac(1, 2), Frac(1, 4)>>,
      <<Frac(-1, 4), Zero>>, <<Zero, Frac(1, 2)>> }

Offsets == { PlanarRepresentation(Scalar(o[1]), Scalar(o[2])) : o \in OffsetPairs }

FocalLengths == { Length(Frac(f, 1), "m") : f \in {0, 2, 4, -2} }

Rotations == { Deg0("rad"), Deg37("rad") }

Positions ==
    { PlanarRepresentation(Length(Frac(1, 1), "m"), Length(Frac(2, 1), "m")),
      PlanarRepresentation(Length(Frac(3, 1), "cm"), Length(Frac(-4, 1), "cm")),
      PlanarRepresentation(Length(Zero, "m"), Length(Zero, "m")) }

\* The frame instances of a kind a caller may construct.
Frames(kind) ==
    CASE kind = "Horizon"   -> {HorizonFrame}
      [] kind = "Telescope" -> {TelescopeFrame(p) : p \in Pointings \cup {None}}
      [] kind = "Nominal"   -> {NominalFrame(p) : p \in Pointings \cup {None}}
      [] kind = "Camera"    -> {CameraFrame(f, r, None) : f \in FocalLengths, r \in Rotations}

Kinds == {"Horizon", "Telescope", "Nominal", "Camera"}

\* The coordinates a caller may construct.
Coordinates ==
    { realize_frame(HorizonFrame, d) : d \in Directions }
    \cup { realize_frame(f, o) : f \in Frames("Telescope") \cup Frames("Nominal"),
                                  o \in Offsets }
    \cup { realize_frame(f, p) : f \in Frames("Camera"), p \in Positions }

\* Every number of the data of a coordinate is finite.
FiniteData(coord) ==
    CASE coord.frame.kind = "Horizon" -> TRUE
      [] coord.frame.kind = "Camera" ->
            IsFinite(coord.data.x.v) /\ IsFinite(coord.data.y.v)
      [] OTHER ->
            /\ \A i \in 1..Len(coord.data.x.v) : IsFinite(coord.data.x.v[i])
            /\ \A i \in 1..Len(coord.data.y.v) : IsFinite(coord.data.y.v[i])

(***************************************************************************)
(* The state.  A session with the coordinate module: the transform graph   *)
(* as registered so far, the chain of coordinates obtained from the one    *)
(* the caller constructed, the last transform the caller asked for and the *)
(* exception it raised.  A caller of the two kernels: its memory, the      *)
(* arguments as it built them, and what the calls returned.  A run of a    *)
(* Tool: the position in run(), what happened so far, and the tool's       *)
(* attributes.  A PipelineDrawer: its attributes steps, config_time and    *)
(* queues, the list objects there are, the messages it was given and what  *)
(* it and the lists were before the last one.                              *)
(***************************************************************************)
VARIABLES graph, track, attempt, raised,
          mem, args, out, back, alone,
          pc, trace, log, config_file, argv, sys_argv, overridden, failing,
          drawer, lists, inbox, before

coordVars == <<graph, track, attempt, raised>>

kernelVars == <<mem, args, out, back, alone>>

toolVars == <<pc, trace, log, config_file, argv, sys_argv, overridden, failing>>

drawerVars == <<drawer, lists, inbox, before>>

vars == <<coordVars, kernelVars, toolVars, drawerVars>>

\* No session with the coordinate module.
NoSession == graph = <<>> /\ track = <<>> /\ attempt = None /\ raised = ""

\* No caller of the kernels.
NoCaller == mem = <<>> /\ args = <<>> /\ out = None /\ back = None /\ alone = <<>>

\* No Tool.
NoTool ==
    /\ pc = "" /\ trace = <<>> /\ log = <<>> /\ config_file = ""
    /\ argv = None /\ sys_argv = None /\ overridden = FALSE /\ failing = ""

\* No PipelineDrawer.
NoDrawer == drawer = None /\ lists = <<>> /\ inbox = <<>> /\ before = None

(***************************************************************************)
(* A session with the coordinate module.                                   *)
(***************************************************************************)
Loaded == Len(graph) = Len(Registrations)

Init == NoSession /\ NoCaller /\ NoTool /\ NoDrawer

\* The next decorator of the module runs.
Register ==
    /\ ~Loaded
    /\ graph' = Append(graph, Registrations[Len(graph) + 1])
    /\ UNCHANGED <<track, attempt, raised, kernelVars, toolVars, drawerVars>>

\* The caller constructs a coordinate.
Construct ==
    /\ Loaded
    /\ track = <<>>
    /\ \E c \in Coordinates : track' = <<c>>
    /\ UNCHANGED <<graph, attempt, raised, kernelVars, toolVars, drawerVars>>

\* The caller transforms the last coordinate along an edge of the graph.
Transform ==
    /\ Loaded
    /\ track # <<>>
    /\ raised = ""
    /\ Len(track) <= MaxHops
    /\ FiniteData(track[Len(track)])
    /\ \E i \in 1..Len(graph) :
         /\ graph[i].fromsys = track[Len(track)].frame.kind
         /\ \E frame \in Frames(graph[i].tosys) :
              \E r \in {Call(graph[i].func, track[Len(track)], frame)} :
                  /\ attempt' = [tag |-> "Transform", func |-> graph[i].func,
                                 coord |-> track[Len(track)], frame |-> frame]
                  /\ raised' = r.raised
                  /\ track' = IF r.raised = "" THEN Append(track, r.coord) ELSE track
    /\ UNCHANGED <<graph, kernelVars, toolVars, drawerVars>>

Next == Register \/ Construct \/ Transform

Spec == Init /\ [][Next]_vars

(***************************************************************************)
(* Properties of the coordinate transforms.                                *)
(***************************************************************************)
\* The reference direction of a Telescope or Nominal frame.
Reference(frame) ==
    IF frame.kind = "Telescope" THEN frame.telescope_pointing
    ELSE frame.reference_point

\* The direction (az, alt), one element, is less than 90 degrees away from
\* the reference direction: the product of the two unit vectors is positive.
ForwardOf(az, alt, ref) ==
    SPos(SAdd(SMul(sin(alt), sin(ref.alt)),
              SMul(SMul(cos(alt), cos(ref.alt)),
                   SAdd(SMul(cos(az), cos(ref.az)), SMul(sin(az), sin(ref.az))))))

SkyKinds == {"Horizon", "Telescope", "Nominal"}

\* The sky direction a coordinate of a sky frame stands for.
Sky(coord) ==
    IF coord.frame.kind = "Horizon"
    THEN [azimuth |-> coord.data.az, altitude |-> coord.data.alt]
    ELSE CallOffsetToAltaz(coord.data.x, coord.data.y,
                           Reference(coord.frame).alt, Reference(coord.frame).az)

\* The coordinate is within the validity bounds of a transform to the frame:
\* its direction is in the forward hemisphere of the frame's reference.
InBounds(coord, frame) ==
    \/ frame.kind = "Horizon"
    \/ LET d == Sky(coord)
       IN  \A i \in 1..Len(d.azimuth.v) :
              ForwardOf(d.azimuth.v[i], d.altitude.v[i], Reference(frame))

\* Two buffers of angles hold the same angles.
SameAngles(a, b) ==
    /\ a.shape = b.shape
    /\ \A i \in 1..Len(a.v) : SameAngle(a.v[i], b.v[i])

\* Two coordinates of one sky frame hold the same data.
SameSkyData(a, b) ==
    IF a.frame.kind = "Horizon"
    THEN SameAngles(a.data.az, b.data.az) /\ SameAngles(a.data.alt, b.data.alt)
    ELSE a.data.x = b.data.x /\ a.data.y = b.data.y

\* The chain holds, from place j on, a sky coordinate transformed to
\* another sky frame and back to its own frame.
SkyRoundTrip(j) ==
    /\ j + 2 <= Len(track)
    /\ track[j].frame.kind \in SkyKinds
    /\ track[j + 1].frame.kind \in SkyKinds
    /\ track[j + 2].frame = track[j].frame

\* C1: a coordinate of the Horizon, Telescope or Nominal frame that is
\* transformed to another of these frames and back to its own frame, within
\* the forward hemisphere of the frame it passes through, comes back with
\* the data it started with.
C1_RoundTrip ==
    \A j \in 1..Len(track) :
        (SkyRoundTrip(j) /\ InBounds(track[j], track[j + 1].frame))
            => SameSkyData(track[j + 2], track[j])

\* A Telescope coordinate off the pointing went to a Nominal frame of another
\* reference and back.
C1_Witness ==
    /\ SkyRoundTrip(1)
    /\ track[1].frame.kind = "Telescope"
    /\ track[2].frame.kind = "Nominal"
    /\ Reference(track[1].frame) # Reference(track[2].frame)
    /\ ~IsZero(track[1].data.x.v[1])
    /\ InBounds(track[1], track[2].frame)

\* The chain holds, from place j on, a Telescope coordinate transformed to
\* a Nominal frame and from there to the Horizon frame.
ViaNominal(j) ==
    /\ j + 2 <= Len(track)
    /\ track[j].frame.kind = "Telescope"
    /\ track[j + 1].frame.kind = "Nominal"
    /\ track[j + 2].frame.kind = "Horizon"

\* C7: a Telescope coordinate transformed to a Nominal frame, within the
\* forward hemisphere of the Nominal reference, and from there to the
\* Horizon frame is the direction telescope_to_horizon gives for it.
C7_ViaNominal ==
    \A j \in 1..Len(track) :
        (ViaNominal(j) /\ InBounds(track[j], track[j + 1].frame))
            => SameSkyData(track[j + 2],
                           telescope_to_horizon(track[j], HorizonFrame).coord)

\* A Telescope coordinate off the pointing reached the Horizon frame through
\* a Nominal frame of another reference.
C7_Witness ==
    /\ ViaNominal(1)
    /\ Reference(track[1].frame) # Reference(track[2].frame)
    /\ ~IsZero(track[1].data.y.v[1])
    /\ InBounds(track[1], track[2].frame)

\* The frame kinds one registered edge away from a set of kinds, and the set.
Hop(S) == S \cup {graph[i].tosys : i \in {k \in 1..Len(graph) : graph[k].fromsys \in S}}

\* The frame kinds a path of registered edges leads to from a kind.
RECURSIVE Closure(_, _)
Closure(S, n) == IF n = 0 THEN S ELSE Closure(Hop(S), n - 1)

Reachable(a) == Closure({a}, Cardinality(Kinds))

\* C6: every registered edge at the Camera frame has the Telescope frame at
\* its other end, so a chain of transforms that enters or leaves the Camera
\* frame does so through the Telescope frame; and once the module is loaded
\* every frame kind is reachable from every other one by registered edges.
C6_CameraThroughTelescope ==
    /\ \A i \in 1..Len(graph) :
          /\ graph[i].fromsys = "Camera" => graph[i].tosys = "Telescope"
          /\ graph[i].tosys = "Camera" => graph[i].fromsys = "Telescope"
    /\ \A j \in 1..(Len(track) - 1) :
          /\ track[j].frame.kind = "Camera" => track[j + 1].frame.kind = "Telescope"
          /\ track[j + 1].frame.kind = "Camera" => track[j].frame.kind = "Telescope"
    /\ Loaded => \A a \in Kinds : \A b \in Kinds \ {a} : b \in Reachable(a)

\* A Camera coordinate reached the Horizon frame in two hops.
C6_Witness ==
    /\ Loaded
    /\ Len(track) = 3
    /\ track[1].frame.kind = "Camera"
    /\ track[3].frame.kind = "Horizon"

\* A Telescope frame built without a pointing.
Unpointed(frame) == frame.kind = "Telescope" /\ frame.telescope_pointing = None

\* The last transform asked for goes into or out of an unpointed Telescope
\* frame.
AtUnpointed ==
    /\ attempt # None
    /\ Unpointed(attempt.coord.frame) \/ Unpointed(attempt.frame)

\* The frame kind at the other end of that transform.
OtherEnd ==
    IF Unpointed(attempt.frame) THEN attempt.coord.frame.kind ELSE attempt.frame.kind

\* C4 as stated: every transform into or out of a Telescope frame without
\* pointing, the ones from and to the Camera frame included, raises the
\* missing-attribute error.
C4_EveryTransformFails == AtUnpointed => raised = "AttributeError"

\* C4: a transform between a Telescope frame without pointing and the
\* Horizon or a Nominal frame raises the missing-attribute error and adds no
\* coordinate; a transform between it and a Camera frame does not read the
\* pointing, raises nothing and returns a coordinate in the frame asked for.
C4_SkyTransformsFail ==
    AtUnpointed =>
        IF OtherEnd = "Camera"
        THEN raised = "" /\ track[Len(track)].frame = attempt.frame
        ELSE raised = "AttributeError" /\ track[Len(track)] = attempt.coord

\* A Horizon coordinate was asked into a Telescope frame without pointing,
\* and the call raised.
C4_Witness ==
    /\ AtUnpointed
    /\ attempt.func = "horizon_to_telescope"
    /\ raised = "AttributeError"
    /\ Len(track) = 1

\* The Camera frame of the last transform asked for, when it is one of the
\* two between the Camera and Telescope frames.
AttemptCamera ==
    IF attempt.func = "camera_to_telescope" THEN attempt.coord.frame ELSE attempt.frame

\* The last transform asked for is one between the Camera and Telescope
\* frames whose Camera frame has a focal length of zero or less.
AtBadFocal ==
    /\ attempt # None
    /\ attempt.func \in {"camera_to_telescope", "telescope_to_camera"}
    /\ ~SPos(AttemptCamera.focal_length.v)

\* C5: a transform between the Camera and Telescope frames whose Camera
\* frame has a focal length of zero or less raises the invalid-attribute
\* error and returns no coordinate.
C5_BadFocalFails ==
    AtBadFocal => raised = "InvalidFrameAttribute" /\ track[Len(track)] = attempt.coord

\* The chain holds, from place j on, a Camera coordinate transformed to a
\* Telescope frame and back to its own Camera frame, of a focal length
\* above zero.
CameraRoundTrip(j) ==
    /\ j + 2 <= Len(track)
    /\ track[j].frame.kind = "Camera"
    /\ track[j + 1].frame.kind = "Telescope"
    /\ track[j + 2].frame = track[j].frame
    /\ SPos(track[j].frame.focal_length.v)

\* C2: a camera position transformed by camera_to_telescope and then by
\* telescope_to_camera, with the rotation and focal length of its frame,
\* is the position it was, at depth 0.
C2_CameraRoundTrip ==
    \A j \in 1..Len(track) :
        CameraRoundTrip(j) =>
            /\ Metres(track[j + 2].data.x) = Metres(track[j].data.x)
            /\ Metres(track[j + 2].data.y) = Metres(track[j].data.y)
            /\ IsZero(track[j + 2].data.z.v)

\* The transform of the other frame pair: Horizon to Telescope and Horizon
\* to Nominal, Telescope to Horizon and Nominal to Horizon.
Twin(func) ==
    CASE func = "horizon_to_telescope" -> "altaz_to_nominal"
      [] func = "altaz_to_nominal"     -> "horizon_to_telescope"
      [] func = "telescope_to_horizon" -> "nominal_to_altaz"
      [] func = "nominal_to_altaz"     -> "telescope_to_horizon"

\* The frame of the other pair with the same reference direction: the
\* telescope_pointing of the one is the reference_point of the other.
TwinFrame(frame) ==
    CASE frame.kind = "Telescope" -> NominalFrame(frame.telescope_pointing)
      [] frame.kind = "Nominal"   -> TelescopeFrame(frame.reference_point)
      [] OTHER                    -> frame

\* The same data in the frame of the other pair.
TwinCoord(coord) == realize_frame(TwinFrame(coord.frame), coord.data)

\* The last transform asked for is one of the four between the Horizon frame
\* and a Telescope or Nominal frame.
AtTwinned ==
    /\ attempt # None
    /\ attempt.func \in {"horizon_to_telescope", "altaz_to_nominal",
                         "telescope_to_horizon", "nominal_to_altaz"}

\* What the caller got and what t, the outcome of the other pair, is: both
\* raised the same error, or both returned the same data.
SameOutcome(t) ==
    /\ raised = t.raised
    /\ raised = "" => track[Len(track)].data = t.coord.data

\* C11: a transform between the Horizon frame and a Telescope frame of
\* pointing P gives what the transform between the Horizon frame and a
\* Nominal frame of reference point P gives on the same data, in both
\* directions: the same offsets, the same direction, or the same error.
C11_SameTransform ==
    AtTwinned =>
        SameOutcome(Call(Twin(attempt.func), TwinCoord(attempt.coord),
                         TwinFrame(attempt.frame)))

\* A Horizon coordinate was transformed into a Nominal frame with a
\* reference point, and the coordinate obtained, off the reference, back
\* into the Horizon frame.
C11_Witness ==
    /\ Len(track) = 3
    /\ raised = ""
    /\ attempt # None
    /\ attempt.func = "nominal_to_altaz"
    /\ track[1].frame.kind = "Horizon"
    /\ track[2].frame.kind = "Nominal"
    /\ ~IsZero(track[2].data.x.v[1])

(***************************************************************************)
(* A caller of the two kernels.  It holds the offsets, as two scalars or   *)
(* as two arrays, and the reference direction; it calls offset_to_altaz on *)
(* them, altaz_to_offset on what that returned, and then the two kernels   *)
(* on each element alone.                                                  *)
(***************************************************************************)
\* The longest array of offsets.
MaxLen == 3

\* The arguments of a call: x_off, y_off, altitude, azimuth.
Arguments(shape, o, p) ==
    << Buffer(shape, [i \in 1..Len(o) |-> o[i][1]]),
       Buffer(shape, [i \in 1..Len(o) |-> o[i][2]]),
       Scalar(p.alt), Scalar(p.az) >>

CallerMemories ==
    { Arguments("scalar", <<o>>, p) : o \in OffsetPairs, p \in Pointings }
    \cup UNION { { Arguments("array", o, p) : o \in [1..n -> OffsetPairs], p \in Pointings } :
                 n \in 1..MaxLen }

KernelInit ==
    /\ NoSession /\ NoTool /\ NoDrawer
    /\ mem \in CallerMemories
    /\ args = mem
    /\ out = None /\ back = None /\ alone = <<>>

\* offset_to_altaz(x_off, y_off, altitude, azimuth) on the caller's values.
CallOffsetToAltazOnAll ==
    /\ mem # <<>>
    /\ out = None
    /\ \E r \in {offset_to_altaz(mem, 1, 2, 3, 4)} :
           /\ mem' = r.mem
           /\ out' = [altitude |-> r.altitude, azimuth |-> r.azimuth]
    /\ UNCHANGED <<args, back, alone, coordVars, toolVars, drawerVars>>

\* altaz_to_offset(obj_azimuth, obj_altitude, azimuth, altitude) on the
\* directions returned and the same reference.
CallAltazToOffsetOnAll ==
    /\ out # None
    /\ back = None
    /\ back' = altaz_to_offset(mem[out.azimuth], mem[out.altitude],
                               mem[4].v[1], mem[3].v[1])
    /\ UNCHANGED <<mem, args, out, alone, coordVars, toolVars, drawerVars>>

\* The two kernels on the next element alone, as scalars.
CallOnOne ==
    /\ back # None
    /\ Len(alone) < Len(mem[1].v)
    /\ \E i \in {Len(alone) + 1} :
         \E r \in {offset_to_altaz(<<Scalar(mem[1].v[i]), Scalar(mem[2].v[i]),
                                     mem[3], mem[4]>>, 1, 2, 3, 4)} :
           \E b \in {altaz_to_offset(Scalar(mem[out.azimuth].v[i]),
                                     Scalar(mem[out.altitude].v[i]),
                                     mem[4].v[1], mem[3].v[1])} :
             alone' = Append(alone, [altitude |-> r.mem[r.altitude],
                                     azimuth |-> r.mem[r.azimuth],
                                     x_off |-> b.x_off, y_off |-> b.y_off])
    /\ UNCHANGED <<mem, args, out, back, coordVars, toolVars, drawerVars>>

KernelNext == CallOffsetToAltazOnAll \/ CallAltazToOffsetOnAll \/ CallOnOne

KernelSpec == KernelInit /\ [][KernelNext]_vars

(***************************************************************************)
(* Properties of the kernels.                                              *)
(***************************************************************************)
\* The places of the caller's offsets where both offsets are zero.
ZeroPlaces == {i \in 1..Len(args[1].v) : IsZero(args[1].v[i]) /\ IsZero(args[2].v[i])}

\* C8: each element of what a kernel returns for an array is what the
\* kernel returns, as a scalar, for that element of the array alone.
C8_Batching ==
    \A i \in 1..Len(alone) :
        /\ isscalar(alone[i].altitude) /\ isscalar(alone[i].x_off)
        /\ mem[out.altitude].v[i] = alone[i].altitude.v[1]
        /\ mem[out.azimuth].v[i] = alone[i].azimuth.v[1]
        /\ back.x_off.v[i] = alone[i].x_off.v[1]
        /\ back.y_off.v[i] = alone[i].y_off.v[1]

\* Every element of an array that holds a zero offset and an offset that is
\* not zero was also given to the kernels alone.
C8_Witness ==
    /\ args # <<>>
    /\ ~isscalar(args[1])
    /\ ZeroPlaces # {}
    /\ ZeroPlaces # 1..Len(args[1].v)
    /\ Len(alone) = Len(args[1].v)

\* The reference direction of the caller, as it built it.
GivenAltitude == args[3].v[1]

GivenAzimuth == args[4].v[1]

\* C3 as stated: at every place where both offsets are zero, scalar or
\* element of an array, offset_to_altaz returns the very values of the
\* reference altitude and azimuth.
C3_ExactReference ==
    out # None =>
        \A i \in ZeroPlaces :
            /\ mem[out.altitude].v[i] = GivenAltitude
            /\ mem[out.azimuth].v[i] = GivenAzimuth

\* C3: at every place where both offsets are zero, scalar or element of an
\* array, offset_to_altaz returns the reference altitude and azimuth in the
\* unit of the reference azimuth: the very values when the reference is in
\* radians, and otherwise the values converted to radians and back.
C3_Reference ==
    out # None =>
        \A i \in ZeroPlaces :
            /\ SameAngle(mem[out.altitude].v[i], GivenAltitude)
            /\ SameAngle(mem[out.azimuth].v[i], GivenAzimuth)
            /\ mem[out.altitude].v[i].unit = GivenAzimuth.unit
            /\ mem[out.azimuth].v[i].unit = GivenAzimuth.unit
            /\ (GivenAltitude.unit = "rad" /\ GivenAzimuth.unit = "rad")
                  => /\ mem[out.altitude].v[i] = GivenAltitude
                     /\ mem[out.azimuth].v[i] = GivenAzimuth

\* offset_to_altaz returned for an array with a zero offset at its second
\* place and a reference in radians.
C3_Witness ==
    /\ out # None
    /\ ~isscalar(args[1])
    /\ 2 \in ZeroPlaces
    /\ 1 \notin ZeroPlaces
    /\ GivenAzimuth.unit = "rad"

\* The places of the caller's offsets where an offset is not zero, in the
\* order of the array.
Kept == SelectSeq([i \in 1..Len(args[1].v) |-> i], LAMBDA i : i \notin ZeroPlaces)

\* The arguments of the caller with the zero offsets taken out of the two
\* arrays.
WithoutZeros(kept) ==
    << Buffer("array", [j \in 1..Len(kept) |-> args[1].v[kept[j]]]),
       Buffer("array", [j \in 1..Len(kept) |-> args[2].v[kept[j]]]),
       args[3], args[4] >>

\* The array offset of the call, as the call left it: the first array made
\* after the four conversions to radians.
OffsetArray == mem[Len(args) + 5]

\* The elements at the places kept are, in the call made, the elements of r,
\* the call on the arrays without zeros; and offset holds there the
\* magnitude of the caller's offsets.
SameAsWithout(kept, r) ==
    \A j \in 1..Len(kept) :
        /\ mem[out.altitude].v[kept[j]] = r.mem[r.altitude].v[j]
        /\ mem[out.azimuth].v[kept[j]] = r.mem[r.azimuth].v[j]
        /\ OffsetArray.v[kept[j]] = r.mem[Len(args) + 5].v[j]
        /\ OffsetArray.v[kept[j]] # Tiny

\* C12: in a call of offset_to_altaz on arrays, 1e-14 is written into offset
\* at the places of zero magnitude and nowhere else, and every element of a
\* magnitude that is not zero is returned as the call on the arrays without
\* their zero elements returns it: the value of the general formula.
C12_OnlyZeroPlaces ==
    (out # None /\ ~isscalar(args[1])) =>
        /\ \A i \in ZeroPlaces : OffsetArray.v[i] = Tiny
        /\ Kept # <<>> =>
              SameAsWithout(Kept, offset_to_altaz(WithoutZeros(Kept), 1, 2, 3, 4))

\* offset_to_altaz returned for an array of three offsets, zero at the
\* first and last places and not zero in between.
C12_Witness ==
    /\ out # None
    /\ ~isscalar(args[1])
    /\ ZeroPlaces = {1, 3}
    /\ Len(args[1].v) = 3

\* C9: after the calls the four arguments of the caller hold what they held
\* before, and the two values offset_to_altaz returned are new ones, none of
\* the arguments and not one another.
C9_InputsKept ==
    /\ \A k \in 1..Len(args) : mem[k] = args[k]
    /\ out # None =>
          /\ out.altitude \notin 1..Len(args)
          /\ out.azimuth \notin 1..Len(args)
          /\ out.altitude # out.azimuth

\* offset_to_altaz returned for an array holding a zero offset, the call in
\* which it writes 1e-14 and the reference into arrays.
C9_Witness ==
    /\ out # None
    /\ ~isscalar(args[1])
    /\ ZeroPlaces # {}
    /\ Len(mem) > Len(args)

(***************************************************************************)
(* A run of a Tool.  run(argv) is followed statement by statement; a       *)
(* method that a subclass is to define is the event of its call, and may   *)
(* raise.                                                                  *)
(***************************************************************************)
\* The values of config_file a Tool is constructed with.
ConfigFiles == {"", "tool.conf"}

\* The command lines: with and without a value for config_file.
CommandLines ==
    { [tag |-> "list", items |-> <<>>],
      [tag |-> "list", items |-> <<[name |-> "config_file", value |-> "cmd.conf"]>>] }

\* The methods run() calls, each of which may raise.
Steps == {"parse_command_line", "load_config_file", "initialize", "start", "finish"}

\* What parse_command_line(argv) reads: argv, or the command line of the
\* process when argv is None.
CommandLine(a) == IF a = None THEN sys_argv.items ELSE a.items

\* config_file after parse_command_line(argv): the value on the command
\* line when there is one.
Parsed(a) ==
    IF \E i \in 1..Len(CommandLine(a)) : CommandLine(a)[i].name = "config_file"
    THEN CommandLine(a)[1].value
    ELSE config_file

ToolInit ==
    /\ NoSession /\ NoCaller /\ NoDrawer
    /\ pc = "parse_command_line"
    /\ trace = <<>>
    /\ log = <<>>
    /\ config_file \in ConfigFiles
    /\ argv \in {None} \cup CommandLines
    /\ sys_argv \in CommandLines
    /\ overridden \in BOOLEAN
    /\ failing \in Steps \cup {""}

\* _setup: self.parse_command_line(argv)
ParseCommandLine ==
    /\ pc = "parse_command_line"
    /\ IF failing = "parse_command_line"
       THEN /\ trace' = Append(trace, [step |-> "parse_command_line",
                                       config_file |-> config_file])
            /\ pc' = "except"
            /\ UNCHANGED config_file
       ELSE /\ trace' = Append(trace, [step |-> "parse_command_line",
                                       config_file |-> Parsed(argv)])
            /\ config_file' = Parsed(argv)
            /\ pc' = "load_config_file"
    /\ UNCHANGED <<log, argv, sys_argv, overridden, failing,
                   coordVars, kernelVars, drawerVars>>

\* _setup: if self.config_file: self.load_config_file(self.config_file)
LoadConfigFile ==
    /\ pc = "load_config_file"
    /\ IF config_file = ""
       THEN pc' = "initialize" /\ UNCHANGED trace
       ELSE /\ trace' = Append(trace, [step |-> "load_config_file",
                                       config_file |-> config_file])
            /\ pc' = IF failing = "load_config_file" THEN "except" ELSE "initialize"
    /\ UNCHANGED <<log, config_file, argv, sys_argv, overridden, failing,
                   coordVars, kernelVars, drawerVars>>

\* _setup: self.initialize().  The method of a subclass, or the one of Tool,
\* which calls Application.initialize(argv=None), and that is
\* self.parse_command_line(None).
Initialize ==
    /\ pc = "initialize"
    /\ IF failing = "initialize"
       THEN /\ trace' = Append(trace, [step |-> "initialize", config_file |-> config_file])
            /\ pc' = "except"
            /\ UNCHANGED config_file
       ELSE IF overridden
       THEN /\ trace' = Append(trace, [step |-> "initialize", config_file |-> config_file])
            /\ pc' = "log"
            /\ UNCHANGED config_file
       ELSE /\ trace' = trace \o << [step |-> "initialize", config_file |-> config_file],
                                    [step |-> "parse_command_line",
                                     config_file |-> Parsed(None)] >>
            /\ config_file' = Parsed(None)
            /\ pc' = "log"
    /\ UNCHANGED <<log, argv, sys_argv, overridden, failing,
                   coordVars, kernelVars, drawerVars>>

\* run: self.log.info("Starting: ...") and self.log.debug("CONFIG: ...")
LogStarting ==
    /\ pc = "log"
    /\ log' = log \o << [level |-> "info", message |-> "Starting"],
                        [level |-> "debug", message |-> "CONFIG"] >>
    /\ pc' = "start"
    /\ UNCHANGED <<trace, config_file, argv, sys_argv, overridden, failing,
                   coordVars, kernelVars, drawerVars>>

\* run with finish() called after start() whether or not start() raised, as
\* in try: self.start() finally: self.finish().
Start_then_finish ==
    /\ pc = "start"
    /\ trace' = Append(trace, [step |-> "start", config_file |-> config_file])
    /\ pc' = "finish"
    /\ UNCHANGED <<log, config_file, argv, sys_argv, overridden, failing,
                   coordVars, kernelVars, drawerVars>>

\* run: self.start()
Start ==
    /\ pc = "start"
    /\ trace' = Append(trace, [step |-> "start", config_file |-> config_file])
    /\ pc' = IF failing = "start" THEN "except" ELSE "finish"
    /\ UNCHANGED <<log, config_file, argv, sys_argv, overridden, failing,
                   coordVars, kernelVars, drawerVars>>

\* run: self.finish(), which logs "Goodbye".
Finish ==
    /\ pc = "finish"
    /\ trace' = Append(trace, [step |-> "finish", config_file |-> config_file])
    /\ IF failing = "finish"
       THEN pc' = "except" /\ UNCHANGED log
       ELSE /\ pc' = "returned"
            /\ log' = Append(log, [level |-> "info", message |-> "Goodbye"])
    /\ UNCHANGED <<config_file, argv, sys_argv, overridden, failing,
                   coordVars, kernelVars, drawerVars>>

\* run: except Exception as err: self.log.error(...)
Caught ==
    /\ pc = "except"
    /\ log' = Append(log, [level |-> "error", message |-> "Caught unexpected exception"])
    /\ pc' = "returned"
    /\ UNCHANGED <<trace, config_file, argv, sys_argv, overridden, failing,
                   coordVars, kernelVars, drawerVars>>

ToolNext ==
    \/ ParseCommandLine \/ LoadConfigFile \/ Initialize \/ LogStarting
    \/ Start \/ Finish \/ Caught

ToolSpec == ToolInit /\ [][ToolNext]_vars

(***************************************************************************)
(* Properties of Tool.run.                                                 *)
(***************************************************************************)
\* The methods called so far, in the order of their calls.
Called == [i \in 1..Len(trace) |-> trace[i].step]

\* C10: when run() has returned and no step raised, the steps were, once
\* each and in this order, the parsing of the command line, the loading of
\* the configuration file when the parsing left config_file non-empty,
\* initialize(), start() and finish().
C10_StepsOnceInOrder ==
    (pc = "returned" /\ failing = "") =>
        Called = IF trace[1].config_file = ""
                 THEN <<"parse_command_line", "initialize", "start", "finish">>
                 ELSE <<"parse_command_line", "load_config_file", "initialize",
                        "start", "finish">>
\* A step of _setup, initialize() or start() was called and raised.
RaisedEarly ==
    /\ failing \in {"parse_command_line", "load_config_file", "initialize", "start"}
    /\ \E i \in 1..Len(trace) : trace[i].step = failing

\* The errors logged so far.
Errors == {i \in 1..Len(log) : log[i].level = "error"}

\* C13: once a step of _setup, initialize() or start() has raised, no later
\* step is called, finish() least of all; run() is in its except clause or
\* has returned, and when it has returned the error was logged once, as the
\* last thing logged.
C13_RaiseSkipsTheRest ==
    RaisedEarly =>
        /\ trace[Len(trace)].step = failing
        /\ \A i \in 1..Len(trace) : trace[i].step # "finish"
        /\ \A i \in 1..Len(log) : log[i].message # "Goodbye"
        /\ pc \in {"except", "returned"}
        /\ pc = "except" => Errors = {}
        /\ pc = "returned" => Errors = {Len(log)}

\* run() has returned after start() raised: "Starting" and "CONFIG" were
\* logged before the error.
C13_Witness ==
    /\ pc = "returned"
    /\ failing = "start"
    /\ Len(log) = 3
    /\ trace # <<>>
    /\ trace[Len(trace)].step = "start"

(***************************************************************************)
(* PipelineDrawer.  A string is a sequence of pieces of text, "$$thread"   *)
(* one of them.  A list object is a place of lists; steps holds a          *)
(* reference to one.  A message comes off the wire: the list of a          *)
(* GUI_GRAPH message is a new object.                                      *)
(***************************************************************************)
\* The most messages given to a drawer.
MaxMessages == 3

StagerRep(name, next_steps, running, nb_job_done) ==
    [name |-> name, next_steps |-> next_steps, running |-> running,
     nb_job_done |-> nb_job_done]

List(items) == [tag |-> "list", items |-> items]

\* name.split('$$thread'): the pieces of name between the occurrences of
\* the separator.
RECURSIVE split(_)
split(name) ==
    IF \A i \in 1..Len(name) : name[i] # "$$thread" THEN << name >>
    ELSE << SubSeq(name, 1, (CHOOSE i \in 1..Len(name) :
                                /\ name[i] = "$$thread"
                                /\ \A j \in 1..(i - 1) : name[j] # "$$thread") - 1) >>
         \o split(SubSeq(name, 1 + (CHOOSE i \in 1..Len(name) :
                                       /\ name[i] = "$$thread"
                                       /\ \A j \in 1..(i - 1) : name[j] # "$$thread"),
                         Len(name)))

\* for step in self.steps, from the step at place i on, with the updates
\* applied to every step of the name and no break.
RECURSIVE step_loop_through(_, _, _, _, _)
step_loop_through(items, i, name, running, nb_job_done) ==
    IF i > Len(items) THEN items
    ELSE IF items[i].name = split(name)[1]
         THEN step_loop_through([items EXCEPT ![i].running = running,
                                              ![i].nb_job_done = nb_job_done],
                                i + 1, name, running, nb_job_done)
         ELSE step_loop_through(items, i + 1, name, running, nb_job_done)

\* for step in self.steps, from the step at place i on: the first step of
\* the name is updated, and the loop left.
RECURSIVE step_loop(_, _, _, _, _)
step_loop(items, i, name, running, nb_job_done) ==
    IF i > Len(items) THEN items
    ELSE IF items[i].name = split(name)[1]
         THEN [items EXCEPT ![i].running = running, ![i].nb_job_done = nb_job_done]
         ELSE step_loop(items, i + 1, name, running, nb_job_done)

\* step_change with the loop that does not break.
step_change_through(s, msg) ==
    [s EXCEPT !.lists[s.drawer.steps].items =
                  step_loop_through(@, 1, msg.name, msg.running, msg.nb_job_done)]

\* step_change(msg) on s, the drawer and the lists.
step_change(s, msg) ==
    [s EXCEPT !.lists[s.drawer.steps].items =
                  step_loop(@, 1, msg.name, msg.running, msg.nb_job_done)]

\* router_change(msg): self.queues[name] = queue
router_change(s, msg) ==
    [s EXCEPT !.drawer.queues =
                  [n \in DOMAIN @ \cup {msg.name} |-> IF n = msg.name THEN msg.queue ELSE @[n]]]

\* graph_change with the list of every GUI_GRAPH message taken.
graph_change_always(s, topic, msg) ==
    IF topic = "GUI_GRAPH"
    THEN [s EXCEPT !.drawer.steps = msg.receiv_steps,
                   !.drawer.config_time = msg.config_time]
    ELSE s

\* if topic == b'GUI_GRAPH': ... if config_time != self.config_time: ...
graph_change(s, topic, msg) ==
    IF topic = "GUI_GRAPH" /\ msg.config_time # s.drawer.config_time
    THEN [s EXCEPT !.drawer.steps = msg.receiv_steps,
                   !.drawer.config_time = msg.config_time]
    ELSE s

ChangeTopics == {"GUI_STAGER_CHANGE", "GUI_CONSUMER_CHANGE", "GUI_PRODUCER_CHANGE"}

\* if self.steps is not None and (topic == ...): self.step_change(msg)
steps_changed(s, topic, msg) ==
    IF s.lists[s.drawer.steps] # None /\ topic \in ChangeTopics
    THEN step_change(s, msg)
    ELSE s

\* if topic == b'GUI_ROUTER_CHANGE': self.router_change(msg)
routers_changed(s, topic, msg) ==
    IF topic = "GUI_ROUTER_CHANGE" THEN router_change(s, msg) ELSE s

\* pipechange(topic, msg) on s, the drawer and the lists.
pipechange(s, topic, msg) ==
    routers_changed(steps_changed(graph_change(s, topic, msg), topic, msg), topic, msg)

(***************************************************************************)
(* A PipelineDrawer and the messages a ZmqSub gives it.                    *)
(***************************************************************************)
\* Two pipelines as a GUI_GRAPH message describes them: a producer and a
\* consumer, and two steps of one name, the second of them running.
Pipelines ==
    { List(<< StagerRep(<<"a">>, << <<"b">> >>, FALSE, 0),
              StagerRep(<<"b">>, <<>>, FALSE, 0) >>),
      List(<< StagerRep(<<"a">>, <<>>, FALSE, 0),
              StagerRep(<<"a">>, <<>>, TRUE, 1) >>) }

Message(topic, msg) == [topic |-> topic, msg |-> msg]

\* The GUI_GRAPH messages: a configuration time and the steps, or None.
GraphMessages ==
    { Message("GUI_GRAPH", [config_time |-> t, receiv_steps |-> l]) :
        t \in {0, 1, 2}, l \in Pipelines }
    \cup { Message("GUI_GRAPH", [config_time |-> 2, receiv_steps |-> None]) }

Change(topic, name, running, nb_job_done) ==
    Message(topic, [name |-> name, running |-> running, nb_job_done |-> nb_job_done])

\* The change messages: of a thread of a step, of a step by its own name,
\* and of a step no pipeline has.
ChangeMessages ==
    { Change("GUI_STAGER_CHANGE", <<"a", "$$thread", "1">>, TRUE, 1),
      Change("GUI_STAGER_CHANGE", <<"b">>, TRUE, 2),
      Change("GUI_STAGER_CHANGE", <<"c", "$$thread", "0">>, TRUE, 1),
      Change("GUI_CONSUMER_CHANGE", <<"a", "$$thread", "1", "$$thread", "2">>, FALSE, 2),
      Change("GUI_PRODUCER_CHANGE", <<"b", "$$thread", "2">>, TRUE, 3) }

RouterMessages ==
    { Message("GUI_ROUTER_CHANGE", [name |-> "r_router", queue |-> q]) : q \in {"0", "3"} }

Messages ==
    GraphMessages \cup ChangeMessages \cup RouterMessages
    \cup { Message("GUI_OTHER", None) }

\* __init__: steps an empty list, config_time 0. and queues an empty dict.
DrawerInit ==
    /\ NoSession /\ NoCaller /\ NoTool
    /\ lists = << List(<<>>) >>
    /\ drawer = [steps |-> 1, config_time |-> 0, queues |-> <<>>]
    /\ inbox = <<>>
    /\ before = None

\* The message as pipechange gets it, and the lists there are then: the
\* steps of a GUI_GRAPH message are a list of their own.
Received(m) ==
    IF m.topic = "GUI_GRAPH"
    THEN [lists |-> Append(lists, m.msg.receiv_steps),
          msg |-> [m.msg EXCEPT !.receiv_steps = Len(lists) + 1]]
    ELSE [lists |-> lists, msg |-> m.msg]

\* pipechange(topic, msg), called for a message from the pipeline.  The
\* message is kept with the config_time the drawer had when it came.
Pipechange ==
    /\ drawer # None
    /\ Len(inbox) < MaxMessages
    /\ \E m \in Messages :
         \E got \in {Received(m)} :
           \E r \in {pipechange([drawer |-> drawer, lists |-> got.lists],
                                m.topic, got.msg)} :
             /\ drawer' = r.drawer
             /\ lists' = r.lists
             /\ inbox' = Append(inbox, [topic |-> m.topic, msg |-> got.msg,
                                        stored |-> drawer.config_time])
             /\ before' = [drawer |-> drawer, lists |-> got.lists]
    /\ UNCHANGED <<coordVars, kernelVars, toolVars>>

DrawerNext == Pipechange

DrawerSpec == DrawerInit /\ [][DrawerNext]_vars

(***************************************************************************)
(* Properties of PipelineDrawer.pipechange.                                *)
(***************************************************************************)
\* The last message given to the drawer.
LastMessage == inbox[Len(inbox)]

\* The list steps referred to when the last message came.
StepsBefore == before.lists[before.drawer.steps]

\* A name without its thread suffix: what stands before the first
\* "$$thread" of the name, the whole name when there is none.
WithoutThread(name) ==
    SubSeq(name, 1, Largest({k \in 0..Len(name) :
                                \A j \in 1..k : name[j] # "$$thread"}))

\* The places of the steps, in that list, of the name of the last message.
Matching ==
    {i \in 1..Len(StepsBefore.items) :
        StepsBefore.items[i].name = WithoutThread(LastMessage.msg.name)}

Smallest(S) == CHOOSE k \in S : \A j \in S : k <= j

\* The steps with running and nb_job_done of the message at place i.
UpdatedAt(items, i, msg) ==
    [k \in 1..Len(items) |->
        IF k = i THEN [items[k] EXCEPT !.running = msg.running,
                                       !.nb_job_done = msg.nb_job_done]
        ELSE items[k]]

\* C14: a stager, consumer or producer change message leaves steps,
\* config_time and the queues as they were, and every list but the one of
\* steps; in that list the first step whose name is the name of the message
\* without its thread suffix gets the running and nb_job_done of the
\* message, and every other step is as it was; when steps is None or has no
\* step of that name, nothing has changed.
C14_OnlyFirstMatch ==
    (inbox # <<>> /\ LastMessage.topic \in ChangeTopics) =>
        /\ drawer = before.drawer
        /\ Len(lists) = Len(before.lists)
        /\ \A k \in 1..Len(lists) : k # drawer.steps => lists[k] = before.lists[k]
        /\ IF StepsBefore = None THEN lists = before.lists
           ELSE IF Matching = {} THEN lists = before.lists
           ELSE lists[drawer.steps] =
                    List(UpdatedAt(StepsBefore.items, Smallest(Matching), LastMessage.msg))

\* A change message of a thread came for a list with two steps of its
\* name, and the list is not what it was.
C14_Witness ==
    /\ inbox # <<>>
    /\ LastMessage.topic \in ChangeTopics
    /\ Len(LastMessage.msg.name) > 1
    /\ StepsBefore # None
    /\ Matching = {1, 2}
    /\ lists # before.lists

\* The GUI_GRAPH messages whose config_time was not the one the drawer had
\* when they came.
Accepted ==
    {i \in 1..Len(inbox) :
        inbox[i].topic = "GUI_GRAPH" /\ inbox[i].msg.config_time # inbox[i].stored}

\* The last message is a GUI_GRAPH message of the config_time the drawer
\* had.
AtSameConfig ==
    /\ inbox # <<>>
    /\ LastMessage.topic = "GUI_GRAPH"
    /\ LastMessage.msg.config_time = LastMessage.stored

\* C15: steps is the list of the last GUI_GRAPH message whose config_time
\* was not the one the drawer had when it came, and the empty list of
\* __init__ when there was no such message; a GUI_GRAPH message of the
\* config_time the drawer had leaves the drawer and every list, the values
\* of running and nb_job_done in them included, as they were.
C15_StepsOfLastConfig ==
    drawer # None =>
        /\ drawer.steps = IF Accepted = {} THEN 1
                          ELSE inbox[Largest(Accepted)].msg.receiv_steps
        /\ Accepted = {} => lists[1] = List(<<>>)
        /\ AtSameConfig => drawer = before.drawer /\ lists = before.lists

\* A GUI_GRAPH message was taken, a change message updated a step of its
\* list, and a GUI_GRAPH message of the same config_time and other steps
\* came.
C15_Witness ==
    /\ Len(inbox) = 3
    /\ Accepted = {1}
    /\ inbox[2].topic \in ChangeTopics
    /\ AtSameConfig
    /\ lists[2] # None
    /\ lists[3] # lists[2]
    /\ lists[2].items[1].running
====
